---- MODULE Spec2Model ----
(***************************************************************************)
(* Model of wewei/agentjs: the agent loop (src/index.ts), the tool wrapper *)
(* (src/tools/index.ts) and the schema validator (src/tools/schema.ts).    *)
(*                                                                         *)
(* The agent is an async generator.  It is modelled at the granularity of  *)
(* its suspension points: a consumer step (next() or return()) resumes it, *)
(* a backend step delivers the awaited chunk of the stream.                *)
(***************************************************************************)
EXTENDS Integers, Sequences, FiniteSets, TLC

VARIABLES
    pc,                 \* position of the generator returned by makeAgent
    consumer,           \* "active", or "gone" once it stopped pulling
    messages,           \* index.ts:103  the conversation
    events,             \* the AgentOutputChunks yielded so far
    hasMoreIterations,  \* index.ts:118
    toolCallRequests,   \* index.ts:75   array of runAgenticIteration
    heldToolCalls,      \* delta.tool_calls of the chunk held at index.ts:83
    delivered,          \* chunks the backend delivered in this turn
    requests,           \* message lists sent by completions.create
    stream,             \* the backend stream iterated at index.ts:77: "none",
                        \* "open", "ended", "failed", or "closed" by return()
    error,              \* what the generator threw to its caller
    collected,          \* the tool-call deltas fed to collectToolCallRequests
                        \* when it is exercised on its own (SpecCollect)
    givenSchema,        \* the schema given to parse / makeTool
    givenInput,         \* the value given to parse
    parsed,             \* what parse completed with
    rawArguments,       \* the text given to the call of a tool
    handlerBehaviour,   \* what the handler given to makeTool does
    callOutcome         \* how the promise returned by call settled

toolVars == <<givenSchema, givenInput, parsed, rawArguments, handlerBehaviour,
              callOutcome>>

vars == <<pc, consumer, messages, events, hasMoreIterations, toolCallRequests,
          heldToolCalls, delivered, requests, stream, error, collected, toolVars>>

\* parse has not completed, call has not settled
Pending == [pending |-> TRUE]

----------------------------------------------------------------------------
(* Bounds *)

MaxDeltas == 3      \* chunks of one backend stream
MaxIndex == 1       \* largest tool-call index the backend sends

----------------------------------------------------------------------------
(* Values and schemas, schema.ts:1-58.                                     *)
(* A value is [t, v] with t its JSON kind.  Numbers are counted in halves  *)
(* (v = 3 stands for 1.5), so that there are numbers that are no integers. *)
(* An object is the sequence of its [key, value] entries in insertion      *)
(* order.  A schema is a record that has a field only when the schema      *)
(* object has the property.                                                *)

Str(s) == [t |-> "string", v |-> s]
Num(halves) == [t |-> "number", v |-> halves]
Bool(b) == [t |-> "boolean", v |-> b]
Null == [t |-> "null", v |-> "null"]
Arr(items) == [t |-> "array", v |-> items]
Obj(entries) == [t |-> "object", v |-> entries]

Has(obj, field) == field \in DOMAIN obj

\* typeof input
TypeOf(input) == IF input.t \in {"null", "array", "object"} THEN "object" ELSE input.t

\* a number as JavaScript prints it
NumStr(halves) ==
    LET a == IF halves < 0 THEN 0 - halves ELSE halves
        digits == IF a % 2 = 0 THEN ToString(a \div 2)
                  ELSE ToString(a \div 2) \o ".5"
    IN IF halves < 0 THEN "-" \o digits ELSE digits

\* `${input}` in a template literal
RECURSIVE JSString(_)
RECURSIVE JoinItems(_, _)
JoinItems(items, k) ==
    IF k > Len(items) THEN ""
    ELSE (IF k > 1 THEN "," ELSE "")
         \o (IF items[k].t = "null" THEN "" ELSE JSString(items[k]))
         \o JoinItems(items, k + 1)
JSString(input) ==
    CASE input.t = "string" -> input.v
      [] input.t = "number" -> NumStr(input.v)
      [] input.t = "boolean" -> IF input.v THEN "true" ELSE "false"
      [] input.t = "null" -> "null"
      [] input.t = "array" -> JoinItems(input.v, 1)
      [] input.t = "object" -> "[object Object]"

\* JSON.stringify of a value (the strings of the model need no escaping)
RECURSIVE JSONStringify(_)
RECURSIVE StringifyItems(_, _)
RECURSIVE StringifyEntries(_, _)
StringifyItems(items, k) ==
    IF k > Len(items) THEN ""
    ELSE (IF k > 1 THEN "," ELSE "") \o JSONStringify(items[k])
         \o StringifyItems(items, k + 1)
StringifyEntries(entries, k) ==
    IF k > Len(entries) THEN ""
    ELSE (IF k > 1 THEN "," ELSE "")
         \o "\"" \o entries[k].key \o "\":" \o JSONStringify(entries[k].value)
         \o StringifyEntries(entries, k + 1)
JSONStringify(value) ==
    CASE value.t = "string" -> "\"" \o value.v \o "\""
      [] value.t = "number" -> NumStr(value.v)
      [] value.t = "boolean" -> IF value.v THEN "true" ELSE "false"
      [] value.t = "null" -> "null"
      [] value.t = "array" -> "[" \o StringifyItems(value.v, 1) \o "]"
      [] value.t = "object" -> "{" \o StringifyEntries(value.v, 1) \o "}"

\* array.includes(x)
Includes(array, x) == \E k \in 1..Len(array) : array[k] = x

----------------------------------------------------------------------------
(* The validator, schema.ts:101-275.  A function that throws is modelled   *)
(* by the result it completes with: [ok |-> TRUE, value] when it returns,  *)
(* [ok |-> FALSE, error] when it throws.                                   *)

\* schema.ts:101-103, on the strings of the model
isValidEmail(email) == email \in {"a@b.c"}
\* schema.ts:105-112
isValidUri(uri) == uri \in {"http://a"}
\* schema.ts:114-116
isValidDateTime(dateTime) == dateTime \in {"2020-01-01"}

\* schema.ts:118-122
ParseError(message, path, input) ==
    [name |-> "ParseError", message |-> message, path |-> path, input |-> input]

Throw(err) == [ok |-> FALSE, error |-> err]
Return(value) == [ok |-> TRUE, value |-> value]

\* schema.ts:124-147
parseString(schema, path, input) ==
    IF TypeOf(input) # "string"
    THEN Throw(ParseError("input is not a string: " \o JSString(input), path, input))
    ELSE IF Has(schema, "maxLength") /\ schema.maxLength # 0
            /\ Len(input.v) > schema.maxLength
    THEN Throw(ParseError("string is too long: " \o ToString(Len(input.v)) \o " > "
                              \o ToString(schema.maxLength), path, input))
    ELSE IF Has(schema, "minLength") /\ schema.minLength # 0
            /\ Len(input.v) < schema.minLength
    THEN Throw(ParseError("string is too short: " \o ToString(Len(input.v)) \o " < "
                              \o ToString(schema.minLength), path, input))
    ELSE IF Has(schema, "enum") /\ ~Includes(schema.enum, input)
    THEN Throw(ParseError("string is not in enum " \o JSONStringify(Arr(schema.enum))
                              \o ": " \o input.v, path, input))
    ELSE IF Has(schema, "format") /\ schema.format = "email" /\ ~isValidEmail(input.v)
    THEN Throw(ParseError("string is not a valid email: " \o input.v, path, input))
    ELSE IF Has(schema, "format") /\ schema.format = "uri" /\ ~isValidUri(input.v)
    THEN Throw(ParseError("string is not a valid uri: " \o input.v, path, input))
    ELSE IF Has(schema, "format") /\ schema.format = "date-time"
            /\ ~isValidDateTime(input.v)
    THEN Throw(ParseError("string is not a valid date-time: " \o input.v, path, input))
    ELSE Return(input)

\* schema.ts:149-163
parseNumber(schema, path, input) ==
    IF TypeOf(input) # "number"
    THEN Throw(ParseError("input is not a number: " \o JSString(input), path, input))
    ELSE IF Has(schema, "enum") /\ ~Includes(schema.enum, input)
    THEN Throw(ParseError("number is not in enum " \o JSONStringify(Arr(schema.enum))
                              \o ": " \o NumStr(input.v), path, input))
    ELSE IF Has(schema, "minimum") /\ schema.minimum # 0 /\ input.v < schema.minimum
    THEN Throw(ParseError("number is too small: " \o NumStr(input.v) \o " < "
                              \o NumStr(schema.minimum), path, input))
    ELSE IF Has(schema, "maximum") /\ schema.maximum # 0 /\ input.v > schema.maximum
    THEN Throw(ParseError("number is too large: " \o NumStr(input.v) \o " > "
                              \o NumStr(schema.maximum), path, input))
    ELSE Return(input)

\* schema.ts:165-182
parseInteger(schema, path, input) ==
    IF TypeOf(input) # "number"
    THEN Throw(ParseError("input is not a number: " \o JSString(input), path, input))
    ELSE IF input.v % 2 # 0
    THEN Throw(ParseError("number is not an integer: " \o NumStr(input.v), path, input))
    ELSE IF Has(schema, "enum") /\ ~Includes(schema.enum, input)
    THEN Throw(ParseError("number is not in enum " \o JSONStringify(Arr(schema.enum))
                              \o ": " \o NumStr(input.v), path, input))
    ELSE IF Has(schema, "minimum") /\ schema.minimum # 0 /\ input.v < schema.minimum
    THEN Throw(ParseError("number is too small: " \o NumStr(input.v) \o " < "
                              \o NumStr(schema.minimum), path, input))
    ELSE IF Has(schema, "maximum") /\ schema.maximum # 0 /\ input.v > schema.maximum
    THEN Throw(ParseError("number is too large: " \o NumStr(input.v) \o " > "
                              \o NumStr(schema.maximum), path, input))
    ELSE Return(input)

\* schema.ts:184-189
parseBoolean(schema, path, input) ==
    IF TypeOf(input) # "boolean"
    THEN Throw(ParseError("input is not a boolean: " \o JSString(input), path, input))
    ELSE Return(input)

\* schema.ts:191-196
parseNull(schema, path, input) ==
    IF input # Null
    THEN Throw(ParseError("input is not null: " \o JSString(input), path, input))
    ELSE Return(Null)

\* (input as Record<string, unknown>)[key], schema.ts:216: undefined unless
\* the value has the key.  (An array passes the test of schema.ts:212; the
\* property keys of the model are none of its own keys.)
HasKey(input, key) ==
    /\ input.t = "object"
    /\ \E k \in 1..Len(input.v) : input.v[k].key = key
GetKey(input, key) ==
    input.v[CHOOSE k \in 1..Len(input.v) : input.v[k].key = key].value

RECURSIVE parseAny(_, _, _)
RECURSIVE parseItems(_, _, _, _)
RECURSIVE parseProperties(_, _, _, _, _)

\* input.map(...) of schema.ts:208, from item k on; the first item that
\* fails ends the map
parseItems(schema, path, input, k) ==
    IF k > Len(input.v) THEN Return(<<>>)
    ELSE LET item == parseAny(schema.items,
                              path \o "[" \o ToString(k - 1) \o "]", input.v[k])
         IN IF ~item.ok THEN item
            ELSE LET rest == parseItems(schema, path, input, k + 1)
                 IN IF ~rest.ok THEN rest
                    ELSE Return(<<item.value>> \o rest.value)

\* schema.ts:198-209
parseArray(schema, path, input) ==
    IF input.t # "array"
    THEN Throw(ParseError("input is not an array: " \o JSString(input), path, input))
    ELSE IF Has(schema, "minItems") /\ schema.minItems # 0
            /\ Len(input.v) < schema.minItems
    THEN Throw(ParseError("array is too short: " \o ToString(Len(input.v)) \o " < "
                              \o ToString(schema.minItems), path, input))
    ELSE IF Has(schema, "maxItems") /\ schema.maxItems # 0
            /\ Len(input.v) > schema.maxItems
    THEN Throw(ParseError("array is too long: " \o ToString(Len(input.v)) \o " > "
                              \o ToString(schema.maxItems), path, input))
    ELSE LET items == parseItems(schema, path, input, 1)
         IN IF items.ok THEN Return(Arr(items.value)) ELSE items

\* AbsentProperty that reports the missing property at the property's own
\* path instead of the object's
AbsentPropertyAtField(schema, path, input, key, property, acc) ==
    IF Has(schema, "required") /\ Includes(schema.required, key)
    THEN Throw(ParseError("required property \"" \o key \o "\" is missing",
                          path \o "." \o key, input))
    ELSE IF Has(property, "default")
    THEN Return(Append(acc, [key |-> key, value |-> property.default]))
    ELSE Return(acc)

\* one step of the reduce of schema.ts:215-228 for an absent property
\* (value === undefined), schema.ts:217-223
AbsentProperty(schema, path, input, key, property, acc) ==
    IF Has(schema, "required") /\ Includes(schema.required, key)
    THEN Throw(ParseError("required property \"" \o key \o "\" is missing",
                          path, input))
    ELSE IF Has(property, "default")
    THEN Return(Append(acc, [key |-> key, value |-> property.default]))
    ELSE Return(acc)

\* the reduce of schema.ts:215-228 from property k on, acc the accumulator
parseProperties(schema, path, input, k, acc) ==
    IF k > Len(schema.properties) THEN Return(acc)
    ELSE LET key == schema.properties[k].key
             property == schema.properties[k].schema
             step == IF ~HasKey(input, key)
                     THEN AbsentProperty(schema, path, input, key, property, acc)
                     ELSE LET value == parseAny(property, path \o "." \o key,
                                                GetKey(input, key))
                          IN IF value.ok
                             THEN Return(Append(acc, [key |-> key,
                                                      value |-> value.value]))
                             ELSE value
         IN IF step.ok
            THEN parseProperties(schema, path, input, k + 1, step.value)
            ELSE step

\* parseObject that also copies the entries of the input that the schema
\* does not declare
parseObjectCopiesAll(schema, path, input) ==
    IF TypeOf(input) # "object" \/ input = Null
    THEN Throw(ParseError("input is not an object: " \o JSString(input), path, input))
    ELSE LET entries == parseProperties(schema, path, input, 1, <<>>)
             Undeclared(e) ==
                 \A k \in 1..Len(schema.properties) : schema.properties[k].key # e.key
             others == IF input.t = "object" THEN SelectSeq(input.v, Undeclared)
                       ELSE <<>>
         IN IF entries.ok THEN Return(Obj(entries.value \o others)) ELSE entries

\* schema.ts:211-229
parseObject(schema, path, input) ==
    IF TypeOf(input) # "object" \/ input = Null
    THEN Throw(ParseError("input is not an object: " \o JSString(input), path, input))
    ELSE LET entries == parseProperties(schema, path, input, 1, <<>>)
         IN IF entries.ok THEN Return(Obj(entries.value)) ELSE entries

\* schema.ts:231-254
parseAny(schema, path, input) ==
    CASE schema.type = "string" -> parseString(schema, path, input)
      [] schema.type = "number" -> parseNumber(schema, path, input)
      [] schema.type = "integer" -> parseInteger(schema, path, input)
      [] schema.type = "boolean" -> parseBoolean(schema, path, input)
      [] schema.type = "null" -> parseNull(schema, path, input)
      [] schema.type = "array" -> parseArray(schema, path, input)
      [] schema.type = "object" -> parseObject(schema, path, input)
      [] OTHER -> Throw(ParseError("Invalid schema", path, input))

\* schema.ts:257-259
parse(schema, input) == parseAny(schema, "", input)

\* schema.ts:269-275
safeParse(schema, input) ==
    LET r == parse(schema, input)
    IN IF r.ok THEN [success |-> TRUE, value |-> r.value]
       ELSE [success |-> FALSE, error |-> r.error]

----------------------------------------------------------------------------
(* Events, index.ts:7-40 *)

NEW_ITERATION == "new_iteration"
TOOL_CALL_REQUEST == "tool_call_request"
TOOL_CALL_RESPONSE == "tool_call_response"
TEXT_CHUNK == "text"

newIteration == [type |-> NEW_ITERATION]
toolCallRequest(id, name, args) ==
    [type |-> TOOL_CALL_REQUEST, id |-> id, name |-> name, arguments |-> args]
toolCallResponse(id, result) ==
    [type |-> TOOL_CALL_RESPONSE, id |-> id, result |-> result]
textChunk(content) == [type |-> TEXT_CHUNK, content |-> content]

\* An array slot that holds no element (a hole of a sparse array, or an
\* index past the end): reading it gives undefined.  A record made at
\* index.ts:55 always has a non-empty id, so the two never coincide.
Undefined == [type |-> "undefined", id |-> "", name |-> "", arguments |-> ""]

----------------------------------------------------------------------------
(* The backend's alphabet.  An absent id, name or arguments is "": the     *)
(* destructuring at index.ts:53 defaults name and arguments to "" and the  *)
(* test at index.ts:54 treats an absent id and "" alike.                   *)

Ids == {"", "c1", "c2"}
NameFragments == {"", "look", "up", "lookup", "nope"}
ArgFragments == {"", "{", "}", "{}"}
ToolCallDeltas ==
    [index : 0..MaxIndex, id : Ids, name : NameFragments, arguments : ArgFragments]

----------------------------------------------------------------------------
(* collectToolCallRequests, index.ts:48-62 *)

\* toolCallRequests[index] = value on a JavaScript array: writing past the
\* end lengthens the array and leaves holes before the new element.
ArraySet(arr, index, value) ==
    [k \in 1..(IF index + 1 > Len(arr) THEN index + 1 ELSE Len(arr)) |->
        IF k = index + 1 THEN value
        ELSE IF k <= Len(arr) THEN arr[k] ELSE Undefined]

\* toolCallRequests[index] read
ArrayGet(arr, index) ==
    IF index + 1 <= Len(arr) THEN arr[index + 1] ELSE Undefined

\* MergeToolCall with the fragments prepended instead of appended
MergeToolCallPrepend(arr, toolCall) ==
    IF toolCall.id # ""
    THEN ArraySet(arr, toolCall.index,
                  toolCallRequest(toolCall.id, toolCall.name, toolCall.arguments))
    ELSE IF toolCall.index < Len(arr) /\ ArrayGet(arr, toolCall.index) # Undefined
    THEN ArraySet(arr, toolCall.index,
                  [ArrayGet(arr, toolCall.index) EXCEPT
                      !.name = toolCall.name \o @,
                      !.arguments = toolCall.arguments \o @])
    ELSE arr

\* MergeToolCall that starts a record for an id-less delta at an index that
\* holds none
MergeToolCallOrphanStarts(arr, toolCall) ==
    IF toolCall.id # ""
    THEN ArraySet(arr, toolCall.index,
                  toolCallRequest(toolCall.id, toolCall.name, toolCall.arguments))
    ELSE IF toolCall.index < Len(arr) /\ ArrayGet(arr, toolCall.index) # Undefined
    THEN ArraySet(arr, toolCall.index,
                  [ArrayGet(arr, toolCall.index) EXCEPT
                      !.name = @ \o toolCall.name,
                      !.arguments = @ \o toolCall.arguments])
    ELSE ArraySet(arr, toolCall.index,
                  toolCallRequest("", toolCall.name, toolCall.arguments))

\* body of the for loop, index.ts:53-59
MergeToolCall(arr, toolCall) ==
    IF toolCall.id # ""
    THEN ArraySet(arr, toolCall.index,
                  toolCallRequest(toolCall.id, toolCall.name, toolCall.arguments))
    ELSE IF toolCall.index < Len(arr) /\ ArrayGet(arr, toolCall.index) # Undefined
    THEN ArraySet(arr, toolCall.index,
                  [ArrayGet(arr, toolCall.index) EXCEPT
                      !.name = @ \o toolCall.name,
                      !.arguments = @ \o toolCall.arguments])
    ELSE arr

RECURSIVE collectToolCallRequests(_, _)
collectToolCallRequests(arr, deltaToolCalls) ==
    IF deltaToolCalls = <<>> THEN arr
    ELSE collectToolCallRequests(MergeToolCall(arr, Head(deltaToolCalls)),
                                 Tail(deltaToolCalls))

----------------------------------------------------------------------------
(* makeAgent, index.ts:91-175, and runAgenticIteration, index.ts:71-88 *)

SystemPrompt == "You are a helpful assistant."
UserMessage == "question"

\* names of the tools the agent was made with (toolMap, index.ts:108-116)
ToolNames == {"lookup"}

Message(role, content) ==
    [role |-> role, content |-> content, tool_calls |-> <<>>, tool_call_id |-> ""]

\* what the backend may put into one chunk of the stream
TextFragments == {"", "Sure, ", "let me check."}
BackendToolCalls ==
    {tc \in ToolCallDeltas :
        /\ tc.id \in {"", "c1"}
        /\ <<tc.name, tc.arguments>> \in
               {<<"lookup", "">>, <<"nope", "">>, <<"", "{}">>}}
Chunks ==
    [content : TextFragments,
     tool_calls : {<<>>} \cup {<<tc>> : tc \in BackendToolCalls}]

\* position of the turn's assistant message in the conversation: the object
\* made at index.ts:120 stays referenced after it was pushed (index.ts:138)
AssistantAt(msgs) ==
    CHOOSE i \in 1..Len(msgs) :
        /\ msgs[i].role = "assistant"
        /\ \A j \in (i + 1)..Len(msgs) : msgs[j].role # "assistant"

\* (await chunks.next()).value at index.ts:147.  The for await of
\* index.ts:142 has already taken the generator to completion and dropped
\* the value it returned (index.ts:87); next() on a completed generator
\* resolves to {value: undefined, done: true}.
ValueAfterForAwait(returned) == Undefined

\* for (... of x) at index.ts:149 needs x[Symbol.iterator]
IsIterable(x) == x # Undefined

\* Start that issues the request of the first turn itself, before the
\* turn-boundary event was taken by the consumer
StartEager ==
    /\ pc = "start" /\ consumer = "active"
    /\ messages' = <<Message("system", SystemPrompt), Message("user", UserMessage)>>
    /\ hasMoreIterations' = TRUE
    /\ events' = Append(events, newIteration)
    /\ requests' = Append(requests, messages')
    /\ pc' = "yield122"
    /\ UNCHANGED <<consumer, toolCallRequests, heldToolCalls, delivered,
                   stream, error, collected>>
    /\ UNCHANGED toolVars

\* First next(): index.ts:103-122, up to the first yield.
Start ==
    /\ pc = "start" /\ consumer = "active"
    /\ messages' = <<Message("system", SystemPrompt), Message("user", UserMessage)>>
    /\ hasMoreIterations' = TRUE
    /\ events' = Append(events, newIteration)
    /\ pc' = "yield122"
    /\ UNCHANGED <<consumer, toolCallRequests, heldToolCalls, delivered,
                   requests, stream, error, collected>>
    /\ UNCHANGED toolVars

\* next() at the yield of index.ts:122: index.ts:124-142 and, through the
\* first chunks.next(), index.ts:75-77 (completions.create is called here,
\* with the message list as it is now).
ResumeAfterNewIteration ==
    /\ pc = "yield122" /\ consumer = "active"
    /\ messages' = Append(messages, Message("assistant", ""))
    /\ hasMoreIterations' = FALSE
    /\ toolCallRequests' = <<>>
    /\ requests' = Append(requests, messages')
    /\ stream' = "open"
    /\ delivered' = 0
    /\ pc' = "await77"
    /\ UNCHANGED <<consumer, events, heldToolCalls, error, collected>>
    /\ UNCHANGED toolVars

\* The stream delivers a chunk: index.ts:81-85.  A chunk with text is
\* yielded first (index.ts:83 and index.ts:143-144); its tool calls are
\* merged only when the generator is resumed.
DeliverChunk ==
    /\ pc = "await77" /\ stream = "open" /\ delivered < MaxDeltas
    /\ \E chunk \in Chunks :
        /\ delivered' = delivered + 1
        /\ IF chunk.content # ""
           THEN /\ messages' = [messages EXCEPT ![AssistantAt(messages)].content =
                                                    @ \o chunk.content]
                /\ events' = Append(events, textChunk(chunk.content))
                /\ heldToolCalls' = chunk.tool_calls
                /\ pc' = "yield144"
                /\ UNCHANGED toolCallRequests
           ELSE /\ toolCallRequests' =
                       collectToolCallRequests(toolCallRequests, chunk.tool_calls)
                /\ UNCHANGED <<messages, events, heldToolCalls, pc>>
    /\ UNCHANGED <<consumer, hasMoreIterations, requests, stream, error, collected>>
    /\ UNCHANGED toolVars

\* next() at the yield of index.ts:144: the inner generator resumes after
\* index.ts:83, merges the held tool calls (index.ts:85) and awaits the
\* next chunk.
ResumeAfterTextChunk ==
    /\ pc = "yield144" /\ consumer = "active"
    /\ toolCallRequests' = collectToolCallRequests(toolCallRequests, heldToolCalls)
    /\ heldToolCalls' = <<>>
    /\ pc' = "await77"
    /\ UNCHANGED <<consumer, messages, events, hasMoreIterations, delivered,
                   requests, stream, error, collected>>
    /\ UNCHANGED toolVars

\* StreamEnd that first adds a tool-call reference to the assistant message
\* for every record of the turn
StreamEndAddsReferences ==
    /\ pc = "await77" /\ stream = "open"
    /\ stream' = "ended"
    /\ messages' =
           [messages EXCEPT ![AssistantAt(messages)].tool_calls =
               SelectSeq(toolCallRequests, LAMBDA r : r # Undefined)]
    /\ IF IsIterable(ValueAfterForAwait(toolCallRequests))
       THEN /\ pc' = "for149"
            /\ UNCHANGED error
       ELSE /\ pc' = "thrown"
            /\ error' = "TypeError"
    /\ UNCHANGED <<consumer, events, hasMoreIterations, toolCallRequests,
                   heldToolCalls, delivered, requests, collected>>
    /\ UNCHANGED toolVars

\* The stream ends: index.ts:87, then index.ts:147-149.  The loop of
\* index.ts:149 is entered only over an iterable value; the value read at
\* index.ts:147 never is one, so the body of the loop (index.ts:150-172)
\* and the next pass of the while loop are not reached by any behaviour and
\* have no action here.
StreamEnd ==
    /\ pc = "await77" /\ stream = "open"
    /\ stream' = "ended"
    /\ IF IsIterable(ValueAfterForAwait(toolCallRequests))
       THEN /\ pc' = "for149"
            /\ UNCHANGED error
       ELSE /\ pc' = "thrown"
            /\ error' = "TypeError"
    /\ UNCHANGED <<consumer, messages, events, hasMoreIterations, toolCallRequests,
                   heldToolCalls, delivered, requests, collected>>
    /\ UNCHANGED toolVars

\* The backend fails (create rejects, or the stream breaks): nothing in
\* index.ts:77-87 or index.ts:142-147 catches it.
BackendFail ==
    /\ pc = "await77" /\ stream = "open"
    /\ stream' = "failed"
    /\ pc' = "thrown"
    /\ error' = "transport"
    /\ UNCHANGED <<consumer, messages, events, hasMoreIterations, toolCallRequests,
                   heldToolCalls, delivered, requests, collected>>
    /\ UNCHANGED toolVars

\* ConsumerReturn that leaves the iterator of the backend stream alone
ConsumerReturnNoClose ==
    /\ pc \in {"start", "yield122", "yield144"} /\ consumer = "active"
    /\ pc' = "returned"
    /\ UNCHANGED <<consumer, messages, events, hasMoreIterations, toolCallRequests,
                   heldToolCalls, delivered, requests, stream, error, collected>>
    /\ UNCHANGED toolVars

\* return() on the generator (a consumer that breaks out of its for await).
\* Suspended at index.ts:144, the for await of index.ts:142 closes chunks,
\* whose own for await (index.ts:77), suspended at index.ts:83, closes the
\* iterator of the backend stream.
ConsumerReturn ==
    /\ pc \in {"start", "yield122", "yield144"} /\ consumer = "active"
    /\ pc' = "returned"
    /\ stream' = IF stream = "open" THEN "closed" ELSE stream
    /\ UNCHANGED <<consumer, messages, events, hasMoreIterations, toolCallRequests,
                   heldToolCalls, delivered, requests, error, collected>>
    /\ UNCHANGED toolVars

\* The consumer drops the generator without calling return(): no code of
\* the generator runs.
ConsumerAbandon ==
    /\ pc \in {"yield122", "yield144"} /\ consumer = "active"
    /\ consumer' = "gone"
    /\ UNCHANGED <<pc, messages, events, hasMoreIterations, toolCallRequests,
                   heldToolCalls, delivered, requests, stream, error, collected>>
    /\ UNCHANGED toolVars

\* the generator object before its first next()
AgentIdle ==
    /\ pc = "start"
    /\ consumer = "active"
    /\ messages = <<>>
    /\ events = <<>>
    /\ hasMoreIterations = FALSE
    /\ toolCallRequests = <<>>
    /\ heldToolCalls = <<>>
    /\ delivered = 0
    /\ requests = <<>>
    /\ stream = "none"
    /\ error = "none"
    /\ collected = <<>>

\* no parse, no call
ToolIdle ==
    /\ givenSchema = [type |-> "null"]
    /\ givenInput = Null
    /\ parsed = Pending
    /\ rawArguments = ""
    /\ handlerBehaviour = [kind |-> "returns", text |-> ""]
    /\ callOutcome = Pending

Init == AgentIdle /\ ToolIdle

Next ==
    \/ Start
    \/ ResumeAfterNewIteration
    \/ DeliverChunk
    \/ ResumeAfterTextChunk
    \/ StreamEnd
    \/ BackendFail
    \/ ConsumerReturn
    \/ ConsumerAbandon

Spec == Init /\ [][Next]_vars

----------------------------------------------------------------------------
(* Claims about the agent loop (Spec) *)

\* the generator has completed and its consumer was handed done or an error
Finished == pc \in {"done", "thrown"}

\* the completed records of the turn whose stream has ended
Records == SelectSeq(toolCallRequests, LAMBDA r : r # Undefined)

Registered(r) == r.name \in ToolNames

EventsOfType(t) == SelectSeq(events, LAMBDA e : e.type = t)

\* positions of the events about the tool call with correlation id `id`
RequestAt(id) == {i \in 1..Len(events) :
                     events[i].type = TOOL_CALL_REQUEST /\ events[i].id = id}
ResponseAt(id) == {i \in 1..Len(events) :
                      events[i].type = TOOL_CALL_RESPONSE /\ events[i].id = id}
ToolMessageAt(id) == {i \in 1..Len(messages) :
                         messages[i].role = "tool" /\ messages[i].tool_call_id = id}

\* the first turn streamed text and one complete call of a registered tool,
\* and no second request was made
FirstTurnTextThenCall ==
    /\ Len(requests) = 1
    /\ stream = "ended"
    /\ Len(EventsOfType(TEXT_CHUNK)) >= 1
    /\ Len(toolCallRequests) = 1
    /\ toolCallRequests[1] # Undefined
    /\ Registered(toolCallRequests[1])

\* C1: a run whose first turn streams text fragments and then one complete
\* call of a registered tool emits turn-boundary, the text events, the
\* tool-call-request, the tool-call-response with the same id and a second
\* turn-boundary before it ends, and it ends without an error.
C1_EndToEnd ==
    (Finished /\ FirstTurnTextThenCall) =>
        LET n == Len(EventsOfType(TEXT_CHUNK))
            r == toolCallRequests[1]
        IN /\ error = "none"
           /\ Len(events) >= n + 4
           /\ events[1] = newIteration
           /\ \A k \in 2..(n + 1) : events[k].type = TEXT_CHUNK
           /\ events[n + 2] = toolCallRequest(r.id, r.name, r.arguments)
           /\ events[n + 3].type = TOOL_CALL_RESPONSE
           /\ events[n + 3].id = r.id
           /\ events[n + 4] = newIteration

\* C2: when a turn's stream ends with no completed record the event
\* sequence completes normally (DONE); when it ends with at least one
\* completed record the generator does not complete in that turn.
C2_Termination ==
    stream = "ended" =>
        IF Records = <<>>
        THEN pc = "done" /\ error = "none"
        ELSE ~Finished

\* C3: unless the backend fails, the generator never throws to its caller.
C3_NoCallerException == error \in {"none", "transport"}

\* C6: a completed record that names an unregistered tool still gets its
\* tool-call-request event, and gets no tool-call-response event, no
\* tool-role message and no tool-call reference in the assistant message.
C6_UnknownTool ==
    (Finished /\ stream = "ended") =>
        \A k \in 1..Len(Records) :
            ~Registered(Records[k]) =>
                /\ \E i \in RequestAt(Records[k].id) :
                       events[i] = toolCallRequest(Records[k].id, Records[k].name,
                                                   Records[k].arguments)
                /\ ResponseAt(Records[k].id) = {}
                /\ ToolMessageAt(Records[k].id) = {}
                /\ \A m \in 1..Len(messages) :
                       \A c \in 1..Len(messages[m].tool_calls) :
                           messages[m].tool_calls[c].id # Records[k].id

\* C7: another turn is started only after a turn that dispatched a record
\* to a registered tool, and a turn whose completed records all name
\* unregistered tools ends the loop (DONE).
C7_ContinueOnlyAfterDispatch ==
    /\ Len(EventsOfType(NEW_ITERATION)) >= 2 =>
           Len(EventsOfType(TOOL_CALL_RESPONSE)) >= 1
    /\ (Finished /\ stream = "ended" /\ Records # <<>>
            /\ \A k \in 1..Len(Records) : ~Registered(Records[k])) =>
           (pc = "done" /\ error = "none")

C8_StreamReleasedOnAnyStop ==
    (pc = "returned" \/ consumer = "gone") => stream # "open"

\* C8, amended: after return() or abandonment the engine sends no request,
\* emits nothing and appends nothing; a stream in flight when return() is
\* called is closed.  (An abandoned sequence keeps its stream open.)
C8_Cancellation ==
    /\ [](pc = "returned" => stream # "open")
    /\ [][(pc = "returned" \/ consumer = "gone") =>
             /\ requests' = requests
             /\ events' = events
             /\ messages' = messages
             /\ stream' = stream]_vars

\* return() arrived at the yield of index.ts:144, the stream in flight
C8_Witness ==
    /\ pc = "returned"
    /\ stream = "closed"
    /\ Len(requests) = 1
    /\ Len(EventsOfType(TEXT_CHUNK)) >= 1

\* the assistant messages of a message list
AssistantMessages(msgs) == {i \in 1..Len(msgs) : msgs[i].role = "assistant"}

\* C16: the request of the k-th turn carries the seed messages and the
\* messages of the turns before it, so k - 1 assistant messages and not the
\* one of its own turn; and while the stream of a turn is running that
\* turn's assistant message is not in the conversation yet.
C16_AssistantAfterStream ==
    /\ \A k \in 1..Len(requests) :
           Cardinality(AssistantMessages(requests[k])) = k - 1
    /\ stream = "open" =>
           Cardinality(AssistantMessages(messages)) = Len(requests) - 1

AssistantBefore(t) ==
    LET before == {a \in AssistantMessages(messages) : a < t}
    IN IF before = {} THEN 0
       ELSE CHOOSE a \in before : \A b \in before : b <= a

\* the tool-role messages that answer the assistant message at position a,
\* in conversation order
AnswersTo(a) ==
    LET Tool(m) == m.role = "tool"
        from == SubSeq(messages, a + 1, Len(messages))
        next == {k \in 1..Len(from) : from[k].role = "assistant"}
        upto == IF next = {} THEN Len(from)
                ELSE (CHOOSE k \in next : \A l \in next : k <= l) - 1
    IN SelectSeq(SubSeq(from, 1, upto), Tool)

\* the tool-call references held by the messages of the conversation
References ==
    UNION {{messages[m].tool_calls[c].id : c \in 1..Len(messages[m].tool_calls)} :
              m \in 1..Len(messages)}

----------------------------------------------------------------------------
(* collectToolCallRequests on its own: every sequence of tool-call deltas  *)
(* of one turn, fed in lists of one or two as index.ts:85 does per chunk.  *)

MaxCollected == 3   \* tool-call deltas of one turn

CollectDeltas ==
    {tc \in ToolCallDeltas :
        /\ tc.id \in {"", "c1"}
        /\ <<tc.name, tc.arguments>> \in {<<"look", "{">>, <<"up", "}">>}}

Collect ==
    /\ \E deltaToolCalls \in
            {<<a>> : a \in CollectDeltas} \cup
            {<<a, b>> : a \in CollectDeltas, b \in CollectDeltas} :
        /\ Len(collected) + Len(deltaToolCalls) <= MaxCollected
        /\ toolCallRequests' = collectToolCallRequests(toolCallRequests, deltaToolCalls)
        /\ collected' = collected \o deltaToolCalls
    /\ UNCHANGED <<pc, consumer, messages, events, hasMoreIterations, heldToolCalls,
                   delivered, requests, stream, error>>
    /\ UNCHANGED toolVars

SpecCollect == Init /\ [][Collect]_vars

\* the deltas of one index, in arrival order
AtIndex(i) ==
    LET Here(tc) == tc.index = i IN SelectSeq(collected, Here)

RECURSIVE ConcatNames(_)
ConcatNames(s) == IF s = <<>> THEN "" ELSE Head(s).name \o ConcatNames(Tail(s))

RECURSIVE ConcatArguments(_)
ConcatArguments(s) ==
    IF s = <<>> THEN "" ELSE Head(s).arguments \o ConcatArguments(Tail(s))

\* index i first appears with a non-empty id and afterwards only without
IdThenContinuations(i) ==
    LET s == AtIndex(i)
    IN /\ s # <<>>
       /\ s[1].id # ""
       /\ \A k \in 2..Len(s) : s[k].id = ""

\* C4: an index that first appears with an id and then only without one is
\* aggregated into a record with that id, the concatenation of its name
\* fragments and the concatenation of its argument fragments, in arrival
\* order, whatever the deltas of other indices in between.
C4_Concatenation ==
    \A i \in 0..MaxIndex :
        IdThenContinuations(i) =>
            ArrayGet(toolCallRequests, i) =
                toolCallRequest(AtIndex(i)[1].id,
                                ConcatNames(AtIndex(i)),
                                ConcatArguments(AtIndex(i)))

\* index 0 got "look"/"{" with an id, then a delta of index 1, then "up"/"}"
C4_Witness ==
    /\ IdThenContinuations(0)
    /\ Len(collected) = 3
    /\ collected[1].index = 0 /\ collected[2].index = 1 /\ collected[3].index = 0
    /\ collected[1].name = "look" /\ collected[3].name = "up"
    /\ ArrayGet(toolCallRequests, 0) = toolCallRequest("c1", "lookup", "{}")

\* the k-th delta has no id and no delta before it gave its index an id
Orphan(k) ==
    /\ collected[k].id = ""
    /\ \A j \in 1..(k - 1) :
           ~(collected[j].index = collected[k].index /\ collected[j].id # "")

\* the deltas from the k-th on, the orphans left out
RECURSIVE WithoutOrphans(_)
WithoutOrphans(k) ==
    IF k > Len(collected) THEN <<>>
    ELSE (IF Orphan(k) THEN <<>> ELSE <<collected[k]>>) \o WithoutOrphans(k + 1)

\* C13: an id-less delta at an index that no id-bearing delta has reached is
\* discarded: no record is made at its index, and the array is what the
\* other deltas alone give, so the deltas after it are aggregated and the
\* records of the other indices are as without it.
C13_OrphanDiscarded ==
    /\ \A i \in 0..MaxIndex :
           (\A k \in 1..Len(collected) :
                collected[k].index = i => collected[k].id = "") =>
               ArrayGet(toolCallRequests, i) = Undefined
    /\ toolCallRequests = collectToolCallRequests(<<>>, WithoutOrphans(1))

\* index 0 got "look"/"{" with an id, then an id-less delta arrived at index
\* 1, then "up"/"}" at index 0
C13_Witness ==
    /\ Len(collected) = 3
    /\ collected[1].index = 0 /\ collected[1].id = "c1" /\ collected[1].name = "look"
    /\ collected[2].index = 1 /\ Orphan(2)
    /\ collected[3].index = 0 /\ collected[3].id = "" /\ collected[3].name = "up"
    /\ toolCallRequests = <<toolCallRequest("c1", "lookup", "{}")>>

\* the stream indices that received an id-bearing delta
IndicesWithId ==
    {i \in 0..MaxIndex :
        \E k \in 1..Len(collected) : collected[k].index = i /\ collected[k].id # ""}

\* C17: the array of records that the aggregation hands over for dispatch
\* (index.ts:87) has one record for each stream index that received an
\* id-bearing delta and nothing else: no slot without a record, also when
\* the indices seen do not start at 0, the records in ascending index order.
C17_NoEmptySlots ==
    /\ Len(toolCallRequests) = Cardinality(IndicesWithId)
    /\ \A k \in 1..Len(toolCallRequests) :
           /\ toolCallRequests[k] # Undefined
           /\ toolCallRequests[k].type = TOOL_CALL_REQUEST

----------------------------------------------------------------------------
(* parse on its own: a schema and an input drawn from the sets below.      *)

MaxLen == 2         \* largest length bound of a string schema

RECURSIVE StrOfLen(_)
StrOfLen(n) == IF n = 0 THEN "" ELSE "x" \o StrOfLen(n - 1)

ModelStrings == {StrOfLen(n) : n \in 0..(MaxLen + 1)} \cup {"a@b.c"}
ModelNumbers == {Num(h) : h \in {0 - 2, 0 - 1, 0, 1, 2, 4}}

StringSchemas ==
    {[type |-> "string"]}
    \cup {[type |-> "string", maxLength |-> n] : n \in 0..MaxLen}
    \cup {[type |-> "string", minLength |-> n] : n \in 0..MaxLen}
    \cup {[type |-> "string", enum |-> <<Str("x"), Str("")>>],
          [type |-> "string", format |-> "email"]}

NumberSchemas ==
    {[type |-> t] : t \in {"number", "integer"}}
    \cup {[type |-> t, minimum |-> m] : t \in {"number", "integer"}, m \in {0 - 2, 0, 2}}
    \cup {[type |-> t, maximum |-> m] : t \in {"number", "integer"}, m \in {0 - 2, 0, 2}}
    \cup {[type |-> t, minimum |-> 0 - 2, maximum |-> m] :
              t \in {"number", "integer"}, m \in {0, 2}}
    \cup {[type |-> "integer", enum |-> <<Num(2), Num(4)>>]}

LeafSchemas ==
    StringSchemas \cup NumberSchemas \cup {[type |-> "boolean"], [type |-> "null"]}

\* schemas of a declared property, with and without a default
PropertySchemas ==
    {[type |-> "string"],
     [type |-> "string", default |-> Str("x")],
     [type |-> "string", maxLength |-> 1, default |-> Str("xx")],
     [type |-> "integer", minimum |-> 2],
     [type |-> "object",
      properties |-> <<[key |-> "b", schema |-> [type |-> "string"]]>>,
      required |-> <<"b">>]}

PropertyLists ==
    {<<>>}
    \cup {<<[key |-> "a", schema |-> p]>> : p \in PropertySchemas}
    \cup {<<[key |-> "a", schema |-> p], [key |-> "b", schema |-> q]>> :
              p \in PropertySchemas, q \in PropertySchemas}

ObjectSchemas ==
    {[type |-> "object", properties |-> ps] : ps \in PropertyLists}
    \cup {[type |-> "object", properties |-> ps, required |-> r] :
              ps \in PropertyLists, r \in {<<>>, <<"a">>, <<"b">>, <<"a", "b">>}}

ArraySchemas ==
    {[type |-> "array", items |-> [type |-> "string", maxLength |-> 1]],
     [type |-> "array", items |-> [type |-> "integer"], minItems |-> 1],
     [type |-> "array", items |-> [type |-> "string"], maxItems |-> 1]}

ParseSchemas == LeafSchemas \cup ObjectSchemas \cup ArraySchemas

\* entries of an input object: a, b, c each absent or with one of the values
EntryChoices(key) ==
    {<<>>} \cup {<<[key |-> key, value |-> v]>> :
                    v \in {Str("x"), Str("xx"), Num(2), Obj(<<>>)}}

ObjectInputs ==
    {Obj(a \o b \o c) :
        a \in EntryChoices("a"), b \in EntryChoices("b"), c \in EntryChoices("c")}

ParseInputs ==
    {Str(x) : x \in ModelStrings} \cup ModelNumbers
    \cup {Bool(TRUE), Bool(FALSE), Null}
    \cup {Arr(<<>>), Arr(<<Str("x")>>), Arr(<<Str("x"), Str("xx")>>), Arr(<<Num(1)>>)}
    \cup ObjectInputs

InitParse ==
    /\ AgentIdle
    /\ givenSchema \in ParseSchemas
    /\ givenInput \in ParseInputs
    /\ parsed = Pending
    /\ rawArguments = ""
    /\ handlerBehaviour = [kind |-> "returns", text |-> ""]
    /\ callOutcome = Pending

Parse ==
    /\ parsed = Pending
    /\ parsed' = parse(givenSchema, givenInput)
    /\ UNCHANGED <<pc, consumer, messages, events, hasMoreIterations, toolCallRequests,
                   heldToolCalls, delivered, requests, stream, error, collected,
                   givenSchema, givenInput, rawArguments, handlerBehaviour, callOutcome>>

SpecParse == InitParse /\ [][Parse]_vars

\* the declared properties of the given object schema that the given input
\* lacks
AbsentDeclared ==
    IF givenSchema.type = "object" /\ givenInput.t = "object"
    THEN {k \in 1..Len(givenSchema.properties) :
             ~HasKey(givenInput, givenSchema.properties[k].key)}
    ELSE {}

IsRequired(key) ==
    Has(givenSchema, "required") /\ Includes(givenSchema.required, key)

\* parse failed for want of property `key` of the given (root) object
FailedForMissing(key) ==
    /\ ~parsed.ok
    /\ parsed.error.path = ""
    /\ parsed.error.message = "required property \"" \o key \o "\" is missing"

\* C10: for a declared property absent from the input, validation fails for
\* it only if it is required and has no default; with a default (required
\* or not) the default is in the output; neither required nor defaulted, it
\* is left out of the output.
C10_AbsentProperty ==
    parsed # Pending =>
        \A k \in AbsentDeclared :
            LET key == givenSchema.properties[k].key
                property == givenSchema.properties[k].schema
            IN /\ FailedForMissing(key) =>
                      (IsRequired(key) /\ ~Has(property, "default"))
               /\ (IsRequired(key) /\ ~Has(property, "default")) => ~parsed.ok
               /\ (Has(property, "default") /\ parsed.ok) =>
                      (HasKey(parsed.value, key)
                           /\ GetKey(parsed.value, key) = property.default)
               /\ (~IsRequired(key) /\ ~Has(property, "default") /\ parsed.ok) =>
                      ~HasKey(parsed.value, key)

\* the length-violation error of schema.ts:129 for `input` under `maxLength`
TooLong(result, path, input, maxLength) ==
    /\ ~result.ok
    /\ result.error.path = path
    /\ result.error.message = "string is too long: " \o ToString(Len(input.v))
                                  \o " > " \o ToString(maxLength)

\* the given schema is an object schema whose first declared property is a
\* string with a maxLength, and the given input has a string there
FirstFieldBounded ==
    /\ givenSchema.type = "object"
    /\ givenSchema.properties # <<>>
    /\ givenSchema.properties[1].schema.type = "string"
    /\ Has(givenSchema.properties[1].schema, "maxLength")
    /\ HasKey(givenInput, givenSchema.properties[1].key)
    /\ GetKey(givenInput, givenSchema.properties[1].key).t = "string"

\* C11: under a string schema with a maxLength (0 included) a string of
\* length maxLength passes the length check and a string of length
\* maxLength + 1 fails with the length-violation error at the path of the
\* field: "" for the root, ".key" for a property.
C11_MaxLengthBoundary ==
    parsed # Pending =>
        /\ (givenSchema.type = "string" /\ Has(givenSchema, "maxLength")
                /\ givenInput.t = "string") =>
               /\ Len(givenInput.v) = givenSchema.maxLength =>
                      ~TooLong(parsed, "", givenInput, givenSchema.maxLength)
               /\ Len(givenInput.v) = givenSchema.maxLength + 1 =>
                      TooLong(parsed, "", givenInput, givenSchema.maxLength)
        /\ FirstFieldBounded =>
               LET key == givenSchema.properties[1].key
                   maxLength == givenSchema.properties[1].schema.maxLength
                   field == GetKey(givenInput, key)
               IN /\ Len(field.v) = maxLength =>
                         ~TooLong(parsed, "." \o key, field, maxLength)
                  /\ Len(field.v) = maxLength + 1 =>
                         TooLong(parsed, "." \o key, field, maxLength)

\* C12: validation is idempotent: when parse succeeds with value v, parse of
\* the same schema on v succeeds too and returns v, injected defaults
\* included.
C12_Idempotent ==
    (parsed # Pending /\ parsed.ok) =>
        parse(givenSchema, parsed.value) = Return(parsed.value)

\* the given object schema declares a property `key`
Declared(key) ==
    \E k \in 1..Len(givenSchema.properties) : givenSchema.properties[k].key = key

\* the given input without the entries the given schema does not declare
DeclaredOnly ==
    LET Keep(e) == Declared(e.key) IN Obj(SelectSeq(givenInput.v, Keep))

\* C14: the output of an object schema has declared properties only, and
\* the undeclared properties of the input change nothing: parse succeeds or
\* fails as it does on the input without them, with the same output.
C14_OnlyDeclared ==
    (parsed # Pending /\ givenSchema.type = "object") =>
        /\ parsed.ok =>
               \A e \in 1..Len(parsed.value.v) : Declared(parsed.value.v[e].key)
        /\ givenInput.t = "object" =>
               LET alone == parse(givenSchema, DeclaredOnly)
               IN /\ alone.ok = parsed.ok
                  /\ parsed.ok => parsed.value = alone.value

\* schema {a: string}, required [a], input {a: "x", b: 1}: output {a: "x"}
C14_Witness ==
    /\ givenSchema = [type |-> "object",
                      properties |-> <<[key |-> "a", schema |-> [type |-> "string"]]>>,
                      required |-> <<"a">>]
    /\ givenInput = Obj(<<[key |-> "a", value |-> Str("x")],
                          [key |-> "b", value |-> Num(2)]>>)
    /\ parsed = Return(Obj(<<[key |-> "a", value |-> Str("x")]>>))

\* the declared properties of the given object schema that are required,
\* have no default and are missing from the given input (any input that
\* passes the test of schema.ts:212)
MissingRequired ==
    IF givenSchema.type = "object" /\ givenInput.t \in {"object", "array"}
    THEN {k \in 1..Len(givenSchema.properties) :
             /\ ~HasKey(givenInput, givenSchema.properties[k].key)
             /\ IsRequired(givenSchema.properties[k].key)
             /\ ~Has(givenSchema.properties[k].schema, "default")}
    ELSE {}

\* the j-th declared property of the given schema makes the reduce of
\* schema.ts:215 throw
FieldFails(j) ==
    LET key == givenSchema.properties[j].key
    IN IF HasKey(givenInput, key)
       THEN ~parseAny(givenSchema.properties[j].schema, "." \o key,
                      GetKey(givenInput, key)).ok
       ELSE IsRequired(key)

\* the first declared property is an object with the required property b,
\* and the input has an object without b there
NestedMissing ==
    /\ givenSchema.type = "object"
    /\ givenSchema.properties # <<>>
    /\ givenSchema.properties[1].schema.type = "object"
    /\ HasKey(givenInput, givenSchema.properties[1].key)
    /\ GetKey(givenInput, givenSchema.properties[1].key) = Obj(<<>>)

RangeError(result) ==
    /\ ~result.ok
    /\ result.error.path = ""
    /\ \/ /\ Has(givenSchema, "minimum")
          /\ result.error.message = "number is too small: " \o NumStr(givenInput.v)
                                        \o " < " \o NumStr(givenSchema.minimum)
       \/ /\ Has(givenSchema, "maximum")
          /\ result.error.message = "number is too large: " \o NumStr(givenInput.v)
                                        \o " > " \o NumStr(givenSchema.maximum)

\* the given input passes the checks that come before the range checks
BeforeRange ==
    /\ givenInput.t = "number"
    /\ givenSchema.type = "integer" => givenInput.v % 2 = 0
    /\ ~Has(givenSchema, "enum")

\* C18: under a number or integer schema with a minimum and/or a maximum
\* (0 included) a numeric input is accepted only if it lies within the
\* bounds, and an input below the minimum or above the maximum is rejected
\* with a range error at the field's path.
C18_RangeBounds ==
    (parsed # Pending /\ givenSchema.type \in {"number", "integer"}
         /\ givenInput.t = "number") =>
        /\ parsed.ok =>
               /\ Has(givenSchema, "minimum") => givenInput.v >= givenSchema.minimum
               /\ Has(givenSchema, "maximum") => givenInput.v <= givenSchema.maximum
        /\ (BeforeRange /\ Has(givenSchema, "minimum")
                /\ givenInput.v < givenSchema.minimum) => RangeError(parsed)
        /\ (BeforeRange /\ Has(givenSchema, "maximum")
                /\ givenInput.v > givenSchema.maximum) => RangeError(parsed)

----------------------------------------------------------------------------
(* makeTool, tools/index.ts:16-43 (and the same call in unnamed/part_000)  *)

\* JSON.parse on the argument texts of the model
JSONParse(text) ==
    CASE text = "{}" -> Return(Obj(<<>>))
      [] text = "{\"a\":\"x\"}" -> Return(Obj(<<[key |-> "a", value |-> Str("x")]>>))
      [] text = "{\"a\":1}" -> Return(Obj(<<[key |-> "a", value |-> Num(2)]>>))
      [] text = "{\"a\":\"x\",\"c\":1}" ->
            Return(Obj(<<[key |-> "a", value |-> Str("x")],
                         [key |-> "c", value |-> Num(2)]>>))
      [] text = "null" -> Return(Null)
      [] text = "[]" -> Return(Arr(<<>>))
      [] text = "\"x\"" -> Return(Str("x"))
      [] OTHER -> Throw([name |-> "SyntaxError"])

RawTexts ==
    {"", "{", "{}", "{}}", "{\"a\":\"x\"}", "{\"a\":1}", "{\"a\":\"x\",\"c\":1}",
     "null", "[]", "\"x\""}

\* What a handler does when it is invoked: it resolves to a text, or it
\* rejects with a value: an Error, a string, or an object that refers to
\* itself.
HandlerBehaviours ==
    {[kind |-> "returns", text |-> "ok"],
     [kind |-> "throws", value |-> [name |-> "Error"]],
     [kind |-> "throws", value |-> [name |-> "string", text |-> "boom"]],
     [kind |-> "throws", value |-> [name |-> "circular"]]}

\* JSON.stringify({error}), tools/index.ts:37-39.  Of an Error only the own
\* enumerable properties are written: none for SyntaxError and Error, path
\* and input for ParseError (schema.ts:119).  A circular structure makes
\* JSON.stringify throw a TypeError.
StringifyErrorPayload(err) ==
    CASE err.name \in {"SyntaxError", "Error"} -> Return("{\"error\":{}}")
      [] err.name = "ParseError" ->
            Return("{\"error\":{\"path\":" \o JSONStringify(Str(err.path))
                       \o ",\"input\":" \o JSONStringify(err.input) \o "}}")
      [] err.name = "string" ->
            Return("{\"error\":" \o JSONStringify(Str(err.text)) \o "}")
      [] err.name = "circular" -> Throw([name |-> "TypeError"])

\* the try block, tools/index.ts:33-34
TryCall(toolSchema, behaviour, paramString) ==
    LET decoded == JSONParse(paramString)
    IN IF ~decoded.ok THEN decoded
       ELSE LET paramObj == parse(toolSchema, decoded.value)
            IN IF ~paramObj.ok THEN paramObj
               ELSE IF behaviour.kind = "throws" THEN Throw(behaviour.value)
               ELSE Return(JSONStringify(Str(behaviour.text)))

\* call, tools/index.ts:31-41: how the promise it returns settles
call(toolSchema, behaviour, paramString) ==
    LET tried == TryCall(toolSchema, behaviour, paramString)
    IN IF tried.ok THEN [settled |-> "resolved", text |-> tried.value]
       ELSE LET payload == StringifyErrorPayload(tried.error)
            IN IF payload.ok THEN [settled |-> "resolved", text |-> payload.value]
               ELSE [settled |-> "rejected", reason |-> payload.error]

ToolSchemas ==
    {[type |-> "object",
      properties |-> <<[key |-> "a", schema |-> [type |-> "string"]]>>,
      required |-> <<"a">>],
     [type |-> "object",
      properties |-> <<[key |-> "a", schema |-> [type |-> "string", maxLength |-> 1]],
                       [key |-> "b", schema |-> [type |-> "string",
                                                 default |-> Str("x")]]>>],
     [type |-> "object",
      properties |-> <<[key |-> "a", schema |-> [type |-> "integer", minimum |-> 4]]>>,
      required |-> <<"a">>],
     [type |-> "string"]}

InitTool ==
    /\ AgentIdle
    /\ givenSchema \in ToolSchemas
    /\ givenInput = Null
    /\ parsed = Pending
    /\ rawArguments \in RawTexts
    /\ handlerBehaviour \in HandlerBehaviours
    /\ callOutcome = Pending

Call ==
    /\ callOutcome = Pending
    /\ callOutcome' = call(givenSchema, handlerBehaviour, rawArguments)
    /\ UNCHANGED <<pc, consumer, messages, events, hasMoreIterations, toolCallRequests,
                   heldToolCalls, delivered, requests, stream, error, collected,
                   givenSchema, givenInput, parsed, rawArguments, handlerBehaviour>>

SpecTool == InitTool /\ [][Call]_vars

\* C5: call never raises: whatever the argument text and whatever the
\* handler does, the promise resolves to a text, which is a serialized
\* error payload when decoding, validation or the handler failed.
C5_CallNeverRaises ==
    callOutcome # Pending =>
        LET tried == TryCall(givenSchema, handlerBehaviour, rawArguments)
        IN /\ callOutcome.settled = "resolved"
           /\ ~tried.ok => callOutcome.text = StringifyErrorPayload(tried.error).value

====
